---- MODULE Spec2Model ----
(***************************************************************************)
(* Boustrophedon cellular decomposition, src/path_planning/bcd.py.         *)
(*                                                                         *)
(* World.__init__ copies the polygon's points and directed graph, runs     *)
(* _line_sweep (classification of every vertex in sweep order with chord   *)
(* insertion at SPLIT/MERGE vertices, then loop tracing from every         *)
(* critical vertex) and _build_reebgraph.                                  *)
(*                                                                         *)
(* Arithmetic.  The source computes in binary floating point; here every   *)
(* coordinate is an exact rational.  x coordinates stay integers (an       *)
(* inserted point copies the x of its event vertex, line 100), y           *)
(* coordinates are records [n, d] with d > 0.  right_turn is the one       *)
(* place with a square root: the operator returns sgn(s) * s^2 for the     *)
(* source's value s, an order-preserving image of it, so that every sort   *)
(* and comparison made on it agrees with the source.  The sweep angle is   *)
(* theta = 0, for which _make_rot_matrix is the identity matrix.           *)
(***************************************************************************)
EXTENDS Integers, Sequences, FiniteSets, TLC

VARIABLES
    poly,       \* the input: [pts, loops] (self.poly)
    points,     \* self.points: vertex id -> [x, y]
    G,          \* self.G: [succ, pred, weight], adjacency in insertion order
    pc,         \* position of the run inside World.__init__
    L,          \* _line_sweep: vertex ids sorted by x
    li,         \* _line_sweep: index into L of the next vertex to classify
    A,          \* _line_sweep: vertex -> <<a_i, b_i>> of the inserted points
    crits,      \* _line_sweep: critical vertices <<v, etype>> in sweep order
    vtypes,     \* _line_sweep: vertex -> event type
    C,          \* the list of cells (sets of vertex ids)
    ci,         \* _line_sweep: index into crits of the current event
    starts,     \* _process_events: G.adj[v[0]], the start neighbours
    si,         \* _process_events: index into starts of the current start
    prev_node,  \* _process_events
    node,       \* _process_events
    path_start, \* _process_events
    path,       \* _process_events
    n,          \* _process_events: step counter of the current trace
    Rg          \* self.Rg: [nodes, edges], an edge is the set of its ends

vars == <<poly, points, G, pc, L, li, A, crits, vtypes, C, ci, starts, si,
          prev_node, node, path_start, path, n, Rg>>

None == -1

(***************************************************************************)
(* Exact rationals [n, d], d > 0.                                          *)
(***************************************************************************)
Abs(i) == IF i < 0 THEN -i ELSE i

RECURSIVE Gcd(_, _)
Gcd(a, b) == IF b = 0 THEN a ELSE Gcd(b, a % b)

Rat(num, den) ==
    LET g == Gcd(Abs(num), Abs(den))
        s == IF den < 0 THEN -1 ELSE 1
    IN  [n |-> s * (num \div g), d |-> s * (den \div g)]

RInt(i) == [n |-> i, d |-> 1]
RAdd(p, q) == Rat(p.n * q.d + q.n * p.d, p.d * q.d)
RSub(p, q) == Rat(p.n * q.d - q.n * p.d, p.d * q.d)
RMul(p, q) == Rat(p.n * q.n, p.d * q.d)
RLess(p, q) == p.n * q.d < q.n * p.d
RAbs(p) == [n |-> Abs(p.n), d |-> p.d]

Range(s) == {s[i] : i \in DOMAIN s}

(***************************************************************************)
(* The input polygons.  A polygon is its integer points and its boundary   *)
(* loops <<vertex ids, weight>>: weight 1 the outer loop, weight 2 a hole. *)
(* The polygon generator is outside src/; both orientations of every       *)
(* polygon are inputs (Reverse), since World accepts either.               *)
(***************************************************************************)
Pt(x, y) == [x |-> x, y |-> RInt(y)]

Triangle ==
    [pts |-> <<Pt(0,0), Pt(2,3), Pt(4,1)>>,
     loops |-> << <<(<<0,1,2>>), 1>> >>]

Rectangle ==
    [pts |-> <<Pt(0,0), Pt(4,0), Pt(4,2), Pt(0,2)>>,
     loops |-> << <<(<<0,1,2,3>>), 1>> >>]

Notch ==
    [pts |-> <<Pt(3,3), Pt(1,5), Pt(5,6), Pt(6,1), Pt(0,0)>>,
     loops |-> << <<(<<0,1,2,3,4>>), 1>> >>]

Zigzag ==
    [pts |-> <<Pt(0,7), Pt(5,7), Pt(4,5), Pt(6,1), Pt(3,1), Pt(7,0), Pt(2,0)>>,
     loops |-> << <<(<<0,1,2,3,4,5,6>>), 1>> >>]

Holed ==
    [pts |-> <<Pt(1,6), Pt(0,0), Pt(5,0), Pt(6,6), Pt(2,2), Pt(4,1), Pt(3,2)>>,
     loops |-> << <<(<<3,2,1,0>>), 1>>, <<(<<4,5,6>>), 2>> >>]

HoledTies ==
    [pts |-> <<Pt(3,0), Pt(1,3), Pt(0,5), Pt(5,5), Pt(2,4), Pt(1,4), Pt(3,2)>>,
     loops |-> << <<(<<0,1,2,3>>), 1>>, <<(<<4,5,6>>), 2>> >>]

RevSeq(s) == [i \in 1..Len(s) |-> s[Len(s) + 1 - i]]

Reverse(p) ==
    [pts |-> p.pts,
     loops |-> [k \in 1..Len(p.loops) |-> <<RevSeq(p.loops[k][1]), p.loops[k][2]>>]]

Shapes == {Triangle, Rectangle, Notch, Zigzag, Holed, HoledTies}

Polygons == Shapes \cup {Reverse(p) : p \in Shapes}


(***************************************************************************)
(* The directed graph: networkx.DiGraph with its insertion-ordered         *)
(* adjacency.  succ[u] and pred[v] list the neighbours in the order the    *)
(* edges were added; node ids are added in increasing order, so iterating  *)
(* the nodes is iterating the ids.                                         *)
(***************************************************************************)
Nodes(g) == DOMAIN g.succ

HasEdge(g, u, v) == <<u, v>> \in DOMAIN g.weight

Remove(s, x) == SelectSeq(s, LAMBDA y : y # x)

\* add_edge(u, v, weight=w): a new edge goes to the end of both adjacency
\* lists, an existing edge only takes the new weight.  (t binds the
\* arguments, so that each is evaluated once.)
AddEdge(g, u, v, w) ==
    LET add(h, a, b, c) ==
            LET ns == Nodes(h) \cup {a, b}
                old(f, x) == IF x \in DOMAIN f THEN f[x] ELSE <<>>
            IN  [succ |-> [x \in ns |->
                            IF x = a /\ ~HasEdge(h, a, b)
                            THEN Append(old(h.succ, x), b) ELSE old(h.succ, x)],
                 pred |-> [x \in ns |->
                            IF x = b /\ ~HasEdge(h, a, b)
                            THEN Append(old(h.pred, x), a) ELSE old(h.pred, x)],
                 weight |-> [e \in DOMAIN h.weight \cup {<<a, b>>} |->
                            IF e = <<a, b>> THEN c ELSE h.weight[e]]]
    IN  CHOOSE r \in {add(t[1], t[2], t[3], t[4]) : t \in {<<g, u, v, w>>}} : TRUE

\* remove_edge(u, v)
RemoveEdge(g, u, v) ==
    LET del(h, a, b) ==
            [succ |-> [h.succ EXCEPT ![a] = Remove(@, b)],
             pred |-> [h.pred EXCEPT ![b] = Remove(@, a)],
             weight |-> [e \in DOMAIN h.weight \ {<<a, b>>} |-> h.weight[e]]]
    IN  CHOOSE r \in {del(t[1], t[2], t[3]) : t \in {<<g, u, v>>}} : TRUE

RECURSIVE EdgesFrom(_, _)
EdgesFrom(g, u) ==
    IF u \notin Nodes(g) THEN <<>>
    ELSE [i \in 1..Len(g.succ[u]) |-> <<u, g.succ[u][i]>>] \o EdgesFrom(g, u + 1)

\* G.edges(): every edge, node by node, in adjacency order
Edges(g) == EdgesFrom(g, 0)

RECURSIVE AddLoop(_, _, _, _)
AddLoop(g, loop, w, i) ==
    IF i > Len(loop) THEN g
    ELSE AddLoop(AddEdge(g, loop[i], loop[(i % Len(loop)) + 1], w), loop, w, i + 1)

RECURSIVE AddLoops(_, _, _)
AddLoops(g, loops, k) ==
    IF k > Len(loops) THEN g
    ELSE AddLoops(AddLoop(g, loops[k][1], loops[k][2], 1), loops, k + 1)

\* poly.G: one directed edge per boundary segment, along each loop
PolyGraph(p) ==
    AddLoops([succ |-> [x \in 0..(Len(p.pts) - 1) |-> <<>>],
              pred |-> [x \in 0..(Len(p.pts) - 1) |-> <<>>],
              weight |-> << >>], p.loops, 1)

\* poly.points: vertex id i is row i of the array
PolyPoints(p) == [i \in 0..(Len(p.pts) - 1) |-> p.pts[i + 1]]

\* np.concatenate([self.points, [pt]]): the new id is the old length
AppendPoint(pts, pt) ==
    [i \in DOMAIN pts \cup {Cardinality(DOMAIN pts)} |->
        IF i \in DOMAIN pts THEN pts[i] ELSE pt]

(***************************************************************************)
(* Geometry primitives.                                                    *)
(***************************************************************************)
intersect_line(x, a, b) ==
    LET hit(p1, p2) ==
            LET m == Rat(Abs(x - p1.x), Abs(p2.x - p1.x))
            IN  [x |-> x, y |-> RAdd(p1.y, RMul(m, RSub(p2.y, p1.y)))]
    IN  IF a.x < x /\ x < b.x THEN <<hit(a, b)>>
        ELSE IF a.x > x /\ x > b.x THEN <<hit(b, a)>>
        ELSE <<>>

check_edge(pts, x, edge) ==
    \/ pts[edge[1]].x > x /\ x > pts[edge[2]].x
    \/ pts[edge[2]].x > x /\ x > pts[edge[1]].x

\* faulty variant of NearestHit: the farthest hit instead of the nearest
NearestHitFarthest(cs, y) ==
    LET key(c) == RAbs(RSub(c.pt.y, y))
    IN  IF cs = <<>> THEN <<>>
        ELSE LET i == CHOOSE i \in 1..Len(cs) :
                        /\ \A j \in 1..Len(cs) : ~RLess(key(cs[i]), key(cs[j]))
                        /\ \A j \in 1..(i - 1) : RLess(key(cs[j]), key(cs[i]))
             IN  <<cs[i]>>

\* min(seq, key=lambda c: abs(c.pt.y - y), default=None): the first minimum
NearestHit(cs, y) ==
    LET key(c) == RAbs(RSub(c.pt.y, y))
    IN  IF cs = <<>> THEN <<>>
        ELSE LET i == CHOOSE i \in 1..Len(cs) :
                        /\ \A j \in 1..Len(cs) : ~RLess(key(cs[j]), key(cs[i]))
                        /\ \A j \in 1..(i - 1) : RLess(key(cs[i]), key(cs[j]))
             IN  <<cs[i]>>

Collision(pts, g, event, edge) ==
    [vx |-> event,
     pt |-> intersect_line(pts[event].x, pts[edge[1]], pts[edge[2]])[1],
     edge |-> edge,
     edgew |-> g.weight[edge]]

\* above and below are <<>> for None, <<collision>> otherwise
get_intersects(pts, g, event) ==
    LET x == pts[event].x
        y == pts[event].y
        es == SelectSeq(Edges(g), LAMBDA e : check_edge(pts, x, e))
        collisions == [i \in 1..Len(es) |-> Collision(pts, g, event, es[i])]
    IN  [above |-> NearestHit(SelectSeq(collisions, LAMBDA c : RLess(y, c.pt.y)), y),
         below |-> NearestHit(SelectSeq(collisions, LAMBDA c : RLess(c.pt.y, y)), y)]

\* a[0]*b[1] - b[0]*a[1] >= 0 with a = p[v] - p[u], b = p[v] - p[w]
qcross(pts, u, v, w) ==
    LET a0 == pts[v].x - pts[u].x
        a1 == RSub(pts[v].y, pts[u].y)
        b0 == pts[v].x - pts[w].x
        b1 == RSub(pts[v].y, pts[w].y)
    IN  RSub(RMul(RInt(a0), b1), RMul(RInt(b0), a1)).n >= 0


(***************************************************************************)
(* Event classifier.                                                       *)
(***************************************************************************)
\* lines 149-154: each loop leaves in vA (vB) the last neighbour whose edge
\* does not have weight 3
lower_upper(pts, g, event) ==
    LET ps == SelectSeq(g.pred[event], LAMBDA p : g.weight[<<p, event>>] # 3)
        ss == SelectSeq(g.succ[event], LAMBDA s : g.weight[<<event, s>>] # 3)
        vA == ps[Len(ps)]
        vB == ss[Len(ss)]
    IN  IF qcross(pts, vA, event, vB)
        THEN [lower |-> vB, upper |-> vA, above |-> TRUE]
        ELSE [lower |-> vA, upper |-> vB, above |-> FALSE]

check_lu(pts, g, event) ==
    LET lu == lower_upper(pts, g, event)
        lx == pts[lu.lower].x
        ux == pts[lu.upper].x
        ex == pts[event].x
    IN  IF lx > ex /\ ux > ex THEN (IF lu.above THEN "OPEN" ELSE "SPLIT")
        ELSE IF lx < ex /\ ux < ex THEN (IF lu.above THEN "CLOSE" ELSE "MERGE")
        ELSE IF lx > ex /\ ux < ex THEN "INFLECTION"
        ELSE IF lx < ex /\ ux > ex THEN "INFLECTION"
        ELSE "None"

(***************************************************************************)
(* Chord insertion.                                                        *)
(***************************************************************************)
\* lines 232-237: the chord between event and the point a_i above it
ChordAbove(g, event, a_i, event_type) ==
    IF event_type = "SPLIT"
    THEN AddEdge(AddEdge(g, a_i, event, 3), event, a_i, 4)
    ELSE IF event_type = "MERGE"
    THEN AddEdge(AddEdge(g, a_i, event, 3), event, a_i, 4)
    ELSE g

\* faulty variant of ChordBelow: both directions get weight 3
ChordBelowSameWeight(g, event, b_i, event_type) ==
    IF event_type \in {"SPLIT", "MERGE"}
    THEN AddEdge(AddEdge(g, event, b_i, 3), b_i, event, 3)
    ELSE g

\* faulty variant of ChordBelow: at a MERGE the chord runs into the event
ChordBelowIntoMerge(g, event, b_i, event_type) ==
    IF event_type = "SPLIT"
    THEN AddEdge(AddEdge(g, event, b_i, 3), b_i, event, 4)
    ELSE IF event_type = "MERGE"
    THEN AddEdge(AddEdge(g, b_i, event, 3), event, b_i, 4)
    ELSE g

\* lines 244-249: the chord between event and the point b_i below it
ChordBelow(g, event, b_i, event_type) ==
    IF event_type = "SPLIT"
    THEN AddEdge(AddEdge(g, event, b_i, 3), b_i, event, 4)
    ELSE IF event_type = "MERGE"
    THEN AddEdge(AddEdge(g, event, b_i, 3), b_i, event, 4)
    ELSE g

\* faulty variant of SplitEdge: the hit edge is not removed
SplitEdgeKeepsEdge(g, edge, p, w) ==
    AddEdge(AddEdge(g, edge[1], p, w), p, edge[2], w)

\* faulty variant of SplitEdge: the half of the hit edge on the side the
\* sweep has passed is missing
SplitEdgeDropsHalf(g, edge, p, w) ==
    IF points[edge[1]].x < points[edge[2]].x
    THEN RemoveEdge(AddEdge(g, p, edge[2], w), edge[1], edge[2])
    ELSE RemoveEdge(AddEdge(g, edge[1], p, w), edge[1], edge[2])

\* lines 238-240 and 250-252: the hit edge is replaced by its two halves
SplitEdge(g, edge, p, w) ==
    RemoveEdge(AddEdge(AddEdge(g, edge[1], p, w), p, edge[2], w), edge[1], edge[2])

make_splitmerge_points(pts, g, event, event_type) ==
    LET hits == get_intersects(pts, g, event)
        a == hits.above
        b == hits.below
        pts1 == IF a # <<>> THEN AppendPoint(pts, a[1].pt) ELSE pts
        a_i == IF a # <<>> THEN Cardinality(DOMAIN pts1) - 1 ELSE None
        g1 == IF a # <<>>
              THEN SplitEdge(ChordAbove(g, event, a_i, event_type),
                             a[1].edge, a_i, a[1].edgew)
              ELSE g
        pts2 == IF b # <<>> THEN AppendPoint(pts1, b[1].pt) ELSE pts1
        b_i == IF b # <<>> THEN Cardinality(DOMAIN pts2) - 1 ELSE None
        g2 == IF b # <<>>
              THEN SplitEdge(ChordBelow(g1, event, b_i, event_type),
                             b[1].edge, b_i, b[1].edgew)
              ELSE g1
    IN  [points |-> pts2, G |-> g2, add |-> <<a_i, b_i>>]

Put(f, k, v) == [x \in DOMAIN f \cup {k} |-> IF x = k THEN v ELSE f[x]]

Critical == {"OPEN", "SPLIT", "MERGE", "CLOSE"}

(***************************************************************************)
(* World.__init__ up to the call of _line_sweep.                           *)
(***************************************************************************)
Init ==
    /\ poly \in Polygons
    /\ points = PolyPoints(poly)
    /\ G = PolyGraph(poly)
    /\ pc = "line_sweep"
    /\ L = <<>>
    /\ li = 1
    /\ A = << >>
    /\ crits = <<>>
    /\ vtypes = << >>
    /\ C = <<>>
    /\ ci = 1
    /\ starts = <<>>
    /\ si = 1
    /\ prev_node = None
    /\ node = None
    /\ path_start = None
    /\ path = <<>>
    /\ n = 0
    /\ Rg = [nodes |-> {}, edges |-> {}]

\* sorted(self.G.nodes, key=x): stable, so equal x keep the order of the ids
SortedByX(pts, ns) ==
    LET before(u, v) == pts[u].x < pts[v].x \/ (pts[u].x = pts[v].x /\ u < v)
    IN  [i \in 1..Cardinality(ns) |->
            CHOOSE v \in ns : Cardinality({u \in ns : before(u, v)}) = i - 1]

\* _line_sweep, lines 271-278: the rotation by theta = 0 and the sort
LineSweepBegin ==
    /\ pc = "line_sweep"
    /\ L' = SortedByX(points, Nodes(G))
    /\ li' = 1
    /\ pc' = "classify"
    /\ UNCHANGED <<poly, points, G, A, crits, vtypes, C, ci, starts, si,
                   prev_node, node, path_start, path, n, Rg>>

\* one iteration of "for v in L": _node_classify(v, A, crits, vtypes)
node_classify ==
    /\ pc = "classify"
    /\ li <= Len(L)
    /\ \E etype \in {check_lu(points, G, L[li])} :
       \E sm \in {IF etype \in {"SPLIT", "MERGE"}
                  THEN make_splitmerge_points(points, G, L[li], etype)
                  ELSE [points |-> points, G |-> G, add |-> <<None, None>>]} :
       LET v == L[li]
           vt1 == Put(vtypes, v, etype)
           vt2 == IF sm.add[1] # None THEN Put(vt1, sm.add[1], "INTERSECT") ELSE vt1
           vt3 == IF sm.add[2] # None THEN Put(vt2, sm.add[2], "INTERSECT") ELSE vt2
       IN  /\ points' = sm.points
           /\ G' = sm.G
           /\ A' = IF etype \in {"SPLIT", "MERGE"} THEN Put(A, v, sm.add) ELSE A
           /\ crits' = IF etype \in Critical THEN Append(crits, <<v, etype>>) ELSE crits
           /\ vtypes' = vt3
    /\ li' = li + 1
    /\ pc' = IF li + 1 > Len(L) THEN "events" ELSE "classify"
    /\ UNCHANGED <<poly, L, C, ci, starts, si, prev_node, node, path_start,
                   path, n, Rg>>

(***************************************************************************)
(* Cell extractor.                                                         *)
(***************************************************************************)
\* The safety bound of the trace loop.  The source aborts a trace at
\* n >= 1e5 (line 323); a trace is a deterministic walk over the pairs
\* (prev_node, node), so a trace still open after more steps than the graph
\* has edges never closes, and the bound is scaled down to a value above the
\* edge count of every graph the sweep builds here.
MaxPathLen == 40

\* the primitive integer vector in the direction of q - p
Direction(p, q) ==
    LET dx == (q.x - p.x) * (p.y.d * q.y.d)
        dy == q.y.n * p.y.d - p.y.n * q.y.d
        g == Gcd(Abs(dx), Abs(dy))
    IN  IF g = 0 THEN <<0, 0>> ELSE <<dx \div g, dy \div g>>

\* sgn(s) * s^2 for the source's value s = cross(a, b) / (|a| |b|); nan when
\* a or b has length 0 (numpy divides 0 by 0)
right_turn(pts, u, v, w) ==
    LET a == Direction(pts[u], pts[v])
        b == Direction(pts[v], pts[w])
        c == a[1] * b[2] - b[1] * a[2]
        na == a[1] * a[1] + a[2] * a[2]
        nb == b[1] * b[1] + b[2] * b[2]
    IN  IF na = 0 \/ nb = 0 THEN [nan |-> TRUE, val |-> RInt(0)]
        ELSE [nan |-> FALSE,
              val |-> Rat((IF c < 0 THEN -1 ELSE 1) * c * c, na * nb)]

\* faulty variant of Cvals: prev stays among the candidates
CvalsWithPrev(pts, g, prev, nd) ==
    LET cand == g.succ[nd]
    IN  [i \in 1..Len(cand) |-> <<cand[i], right_turn(pts, prev, nd, cand[i])>>]

\* lines 303-308: the neighbours of node other than prev_node, with their turn
Cvals(pts, g, prev, nd) ==
    LET cand == SelectSeq(g.succ[nd], LAMBDA q : q # prev)
    IN  [i \in 1..Len(cand) |-> <<cand[i], right_turn(pts, prev, nd, cand[i])>>]

\* lines 310-312: cvals[0][0] after the stable sort by turn.  A nan among the
\* keys leaves the order that sorted() produces unspecified: any candidate.
Best(cvals) ==
    IF \E i \in DOMAIN cvals : cvals[i][2].nan
    THEN {cvals[i][1] : i \in DOMAIN cvals}
    ELSE {cvals[i][1] : i \in {i \in DOMAIN cvals :
            /\ \A j \in DOMAIN cvals : ~RLess(cvals[j][2].val, cvals[i][2].val)
            /\ \A j \in 1..(i - 1) : RLess(cvals[i][2].val, cvals[j][2].val)}}

\* faulty variant of AppendCell: the membership test is missing
AppendCellAlways(cells, cell) == Append(cells, cell)

\* lines 326-327: the set of the path joins C unless it is in C already
AppendCell(cells, cell) ==
    IF cell \in Range(cells) THEN cells ELSE Append(cells, cell)

\* one iteration of "for v in crits", lines 294-296: prev_node = v[0]
process_events_begin ==
    /\ pc = "events"
    /\ ci <= Len(crits)
    /\ prev_node' = crits[ci][1]
    /\ starts' = G.succ[crits[ci][1]]
    /\ si' = 1
    /\ IF G.succ[crits[ci][1]] = <<>>
       THEN pc' = "events" /\ ci' = ci + 1
       ELSE pc' = "for_start" /\ ci' = ci
    /\ UNCHANGED <<poly, points, G, L, li, A, crits, vtypes, C, node,
                   path_start, path, n, Rg>>

\* one iteration of "for path_start in self.G.adj[v[0]]", lines 297-301
trace_begin ==
    /\ pc = "for_start"
    /\ si <= Len(starts)
    /\ path_start' = starts[si]
    /\ path' = <<>>
    /\ node' = starts[si]
    /\ n' = 0
    /\ pc' = "while"
    /\ UNCHANGED <<poly, points, G, L, li, A, crits, vtypes, C, ci, starts, si,
                   prev_node, Rg>>

\* one iteration of "while path_end == False", lines 303-325
trace_step ==
    /\ pc = "while"
    /\ LET cvals == Cvals(points, G, prev_node, node)
       IN  IF cvals = <<>>
           THEN /\ pc' = "IndexError"
                /\ UNCHANGED <<prev_node, node, path, n>>
           ELSE \E best \in Best(cvals) :
                /\ prev_node' = node
                /\ node' = best
                /\ path' = Append(path, best)
                /\ IF best = path_start
                   THEN pc' = "closed" /\ n' = n + 1
                   ELSE IF n >= MaxPathLen
                   THEN pc' = "PathNotClosed" /\ n' = n
                   ELSE pc' = "while" /\ n' = n + 1
    /\ UNCHANGED <<poly, points, G, L, li, A, crits, vtypes, C, ci, starts, si,
                   path_start, Rg>>

\* lines 326-328: the closed loop is recorded; next start or next event
trace_end ==
    /\ pc = "closed"
    /\ C' = AppendCell(C, Range(path))
    /\ si' = si + 1
    /\ IF si + 1 > Len(starts)
       THEN pc' = "events" /\ ci' = ci + 1
       ELSE pc' = "for_start" /\ ci' = ci
    /\ UNCHANGED <<poly, points, G, L, li, A, crits, vtypes, starts, prev_node,
                   node, path_start, path, n, Rg>>

\* _line_sweep, lines 283-285: rotate back by -theta = 0, return C
LineSweepEnd ==
    /\ pc = "events"
    /\ ci > Len(crits)
    /\ pc' = "reeb"
    /\ UNCHANGED <<poly, points, G, L, li, A, crits, vtypes, C, ci, starts, si,
                   prev_node, node, path_start, path, n, Rg>>

(***************************************************************************)
(* Reeb graph builder.                                                     *)
(***************************************************************************)
\* lines 423-438: the pairs (i, j) appended to edges, cells numbered from 0
ReebPairs(cells) ==
    {e \in (0..(Len(cells) - 1)) \X (0..(Len(cells) - 1)) :
        Cardinality(cells[e[1] + 1] \cap cells[e[2] + 1]) >= 2}

\* nx.Graph.add_edges_from: an undirected edge is the set of its two ends
build_reebgraph(cells) ==
    LET es == ReebPairs(cells)
    IN  [nodes |-> {e[1] : e \in es} \cup {e[2] : e \in es},
         edges |-> {{e[1], e[2]} : e \in es}]

BuildReebgraph ==
    /\ pc = "reeb"
    /\ Rg' = build_reebgraph(C)
    /\ pc' = "done"
    /\ UNCHANGED <<poly, points, G, L, li, A, crits, vtypes, C, ci, starts, si,
                   prev_node, node, path_start, path, n>>

Next ==
    \/ LineSweepBegin
    \/ node_classify
    \/ process_events_begin
    \/ trace_begin
    \/ trace_step
    \/ trace_end
    \/ LineSweepEnd
    \/ BuildReebgraph

Spec == Init /\ [][Next]_vars

(***************************************************************************)
(* The cell extractor alone, on every directed graph without self-loops    *)
(* over four points, started at any one vertex of it.                      *)
(***************************************************************************)
AnyPoints ==
    [i \in 0..3 |-> <<Pt(0, 0), Pt(3, 1), Pt(1, 4), Pt(4, 3)>>[i + 1]]

AnyNodes == DOMAIN AnyPoints

RECURSIVE Ascending(_)
Ascending(S) ==
    IF S = {} THEN <<>>
    ELSE LET m == CHOOSE x \in S : \A y \in S : x <= y
         IN  <<m>> \o Ascending(S \ {m})

AnyGraph(es) ==
    [succ |-> [u \in AnyNodes |->
                 Ascending({v \in AnyNodes : <<u, v>> \in es})],
     pred |-> [v \in AnyNodes |->
                 Ascending({u \in AnyNodes : <<u, v>> \in es})],
     weight |-> [e \in es |-> 1]]

InitAny ==
    /\ poly = [pts |-> <<>>, loops |-> <<>>]
    /\ points = AnyPoints
    /\ \E es \in SUBSET {e \in AnyNodes \X AnyNodes : e[1] # e[2]} :
          G = AnyGraph(es)
    /\ pc = "events"
    /\ L = <<>>
    /\ li = 1
    /\ A = << >>
    /\ \E v \in AnyNodes : crits = << <<v, "OPEN">> >>
    /\ vtypes = << >>
    /\ C = <<>>
    /\ ci = 1
    /\ starts = <<>>
    /\ si = 1
    /\ prev_node = None
    /\ node = None
    /\ path_start = None
    /\ path = <<>>
    /\ n = 0
    /\ Rg = [nodes |-> {}, edges |-> {}]

NextAny ==
    \/ process_events_begin
    \/ trace_begin
    \/ trace_step
    \/ trace_end

SpecAny == InitAny /\ [][NextAny]_vars


(***************************************************************************)
(* Properties.                                                             *)
(***************************************************************************)
EdgeSet == DOMAIN G.weight

Rev(e) == <<e[2], e[1]>>

\* C1: every edge of weight 3 has its reverse in G with weight 4 and every
\* edge of weight 4 has its reverse in G with weight 3, after every vertex
\* the sweep has processed; no two vertices are joined by two edges of
\* weight 3 or by two edges of weight 4.
ChordPairing ==
    \A e \in EdgeSet :
        /\ G.weight[e] = 3 => Rev(e) \in EdgeSet /\ G.weight[Rev(e)] = 4
        /\ G.weight[e] = 4 => Rev(e) \in EdgeSet /\ G.weight[Rev(e)] = 3
        /\ (G.weight[e] \in {3, 4} /\ Rev(e) \in EdgeSet) =>
                G.weight[Rev(e)] # G.weight[e]

\* two SPLIT/MERGE vertices have been processed and left four chords
ChordPairingWitness ==
    /\ Cardinality(DOMAIN A) >= 2
    /\ Cardinality({e \in EdgeSet : G.weight[e] = 3}) >= 4

BoundaryIn(v) == {p \in Range(G.pred[v]) : G.weight[<<p, v>>] \in {1, 2}}

BoundaryOut(v) == {q \in Range(G.succ[v]) : G.weight[<<v, q>>] \in {1, 2}}

\* C2: every vertex of G, original or inserted, has exactly one in-edge and
\* exactly one out-edge of weight 1 or 2, after every vertex the sweep has
\* processed.
BoundaryDegree ==
    \A v \in Nodes(G) :
        Cardinality(BoundaryIn(v)) = 1 /\ Cardinality(BoundaryOut(v)) = 1

\* the sweep is over and has inserted four INTERSECT vertices
BoundaryDegreeWitness ==
    /\ pc = "events"
    /\ Cardinality({v \in DOMAIN vtypes : vtypes[v] = "INTERSECT"}) >= 4

\* C3 as stated: at a MERGE vertex v both inserted points p are joined to v
\* by an edge p -> v of weight 3 and an edge v -> p of weight 4.
MergeChordsIntoV ==
    \A v \in DOMAIN A :
        vtypes[v] = "MERGE" =>
            \A k \in {1, 2} :
                A[v][k] # None =>
                    /\ G.weight[<<A[v][k], v>>] = 3
                    /\ G.weight[<<v, A[v][k]>>] = 4

\* C3 amended: at a MERGE vertex v the point a_i above is joined to v by
\* a_i -> v of weight 3 and v -> a_i of weight 4, and the point b_i below by
\* v -> b_i of weight 3 and b_i -> v of weight 4.
MergeChords ==
    \A v \in DOMAIN A :
        vtypes[v] = "MERGE" =>
            /\ A[v][1] # None =>
                /\ G.weight[<<A[v][1], v>>] = 3
                /\ G.weight[<<v, A[v][1]>>] = 4
            /\ A[v][2] # None =>
                /\ G.weight[<<v, A[v][2]>>] = 3
                /\ G.weight[<<A[v][2], v>>] = 4

\* a MERGE vertex has been processed and had a hit above and a hit below
MergeChordsWitness ==
    \E v \in DOMAIN A :
        vtypes[v] = "MERGE" /\ A[v][1] # None /\ A[v][2] # None

CellIds == 0..(Len(C) - 1)

\* C4 as stated: the edges of the Reeb graph are exactly the pairs of
\* distinct cells that share at least two vertex ids.
ReebEdgesDistinctPairs ==
    pc = "done" =>
        Rg.edges = {{i, j} : <<i, j>> \in
                      {e \in CellIds \X CellIds :
                          /\ e[1] # e[2]
                          /\ Cardinality(C[e[1] + 1] \cap C[e[2] + 1]) >= 2}}

\* C5 as stated: the rectangle (0,0),(4,0),(4,2),(0,2) decomposes into one
\* cell and a Reeb graph of one node and no edge.
RectangleOneCell ==
    (poly = Rectangle /\ pc = "done") =>
        Len(C) = 1 /\ Cardinality(Rg.nodes) = 1 /\ Rg.edges = {}

\* C6: no two entries of C are the same set, and the step that ends a trace
\* appends the set of the path exactly when that set is not in C yet.
CellUniqueness ==
    /\ [](\A i, j \in 1..Len(C) : i # j => C[i] # C[j])
    /\ [][pc = "closed" =>
            IF Range(path) \in Range(C)
            THEN C' = C
            ELSE C' = Append(C, Range(path))]_vars

RECURSIVE TracesOf(_)
TracesOf(k) == IF k = 0 THEN 0 ELSE Len(G.succ[crits[k][1]]) + TracesOf(k - 1)

\* every event has been processed; some traces were appended and some were
\* found in C already
CellUniquenessWitness ==
    /\ pc = "reeb"
    /\ Len(C) >= 2
    /\ Len(C) < TracesOf(Len(crits))

\* C7: every set in the cell list has at least three vertex ids.
MinCellSize == \A i \in 1..Len(C) : Cardinality(C[i]) >= 3

\* a later start neighbour's trace, begun with the carried prev_node, has
\* appended a cell, and a cell of exactly three vertices is in the list
MinCellSizeWitness ==
    /\ Len(C) >= 2
    /\ \E i \in 1..Len(C) : Cardinality(C[i]) = 3

\* C8 as stated: every trace begins with prev = v, node = s and an empty
\* path, for the first and for every later start neighbour s of v.
TraceInit ==
    (pc = "while" /\ n = 0) =>
        /\ prev_node = crits[ci][1]
        /\ node = path_start
        /\ path = <<>>

\* C9: a trace always has a candidate to choose from and never runs past
\* the safety bound: it ends closed or aborted with 'Path Not Closed'.
TraceTermination ==
    /\ pc # "IndexError"
    /\ pc = "while" =>
        /\ n <= MaxPathLen
        /\ Cvals(points, G, prev_node, node) # <<>>

\* a trace was aborted at the safety bound after other traces had closed
TraceTerminationWitness == pc = "PathNotClosed" /\ Len(C) >= 2

Straddling(v) ==
    {e \in EdgeSet :
        \/ points[e[1]].x < points[v].x /\ points[v].x < points[e[2]].x
        \/ points[e[2]].x < points[v].x /\ points[v].x < points[e[1]].x}

HitY(v, e) == intersect_line(points[v].x, points[e[1]], points[e[2]])[1].y

HitsAbove(v) == {e \in Straddling(v) : RLess(points[v].y, HitY(v, e))}

HitsBelow(v) == {e \in Straddling(v) : RLess(HitY(v, e), points[v].y)}

\* the hit is on a straddling edge that neither touches v nor ends at v.x
ProperHit(v, c) ==
    /\ c.edge \in Straddling(v)
    /\ c.pt = [x |-> points[v].x, y |-> HitY(v, c.edge)]
    /\ v \notin {c.edge[1], c.edge[2]}
    /\ points[c.edge[1]].x # points[v].x
    /\ points[c.edge[2]].x # points[v].x
    /\ G.weight[c.edge] \in {1, 2}

\* C10: for the SPLIT or MERGE vertex v about to be processed, the hit
\* above is on the straddling edge that crosses the probe at the smallest
\* y > v.y, the hit below on the one at the largest y < v.y, each None
\* exactly when no straddling edge crosses on that side.
NearestHits ==
    (pc = "classify" /\ li <= Len(L)
        /\ check_lu(points, G, L[li]) \in {"SPLIT", "MERGE"}) =>
    LET v == L[li]
        h == get_intersects(points, G, v)
    IN  /\ (h.above = <<>>) <=> (HitsAbove(v) = {})
        /\ (h.below = <<>>) <=> (HitsBelow(v) = {})
        /\ h.above # <<>> =>
            /\ ProperHit(v, h.above[1])
            /\ h.above[1].edge \in HitsAbove(v)
            /\ \A e \in HitsAbove(v) : ~RLess(HitY(v, e), h.above[1].pt.y)
        /\ h.below # <<>> =>
            /\ ProperHit(v, h.below[1])
            /\ h.below[1].edge \in HitsBelow(v)
            /\ \A e \in HitsBelow(v) : ~RLess(h.below[1].pt.y, HitY(v, e))

\* the vertex about to be processed is a SPLIT or MERGE vertex whose probe
\* crosses several edges on one side, in a graph that already has a chord
NearestHitsWitness ==
    /\ pc = "classify" /\ li <= Len(L)
    /\ check_lu(points, G, L[li]) \in {"SPLIT", "MERGE"}
    /\ \/ Cardinality(HitsAbove(L[li])) >= 2
       \/ Cardinality(HitsBelow(L[li])) >= 2
    /\ \E e \in EdgeSet : G.weight[e] = 3

====
